---- MODULE Spec2Model ----
(***************************************************************************)
(* The bar-by-bar position simulators of src/src/backtester.py             *)
(* (run_stock_backtest, run_long_call_backtest,                            *)
(* run_stock_protective_put_backtest), the option pricer of                *)
(* src/src/options.py and the ledger reduction of src/src/metrics.py.      *)
(*                                                                         *)
(* Python floats are modelled as exact rationals <<num, den>> (den > 0,    *)
(* lowest terms): the model is the simulators' arithmetic without IEEE     *)
(* rounding.  The input frame is revealed one bar per loop iteration: bar  *)
(* i and desired[i] become known when iteration i starts, which is the     *)
(* same as fixing the whole frame beforehand because iteration i reads no  *)
(* bar after i.  Two runs, "A" and "B", are stepped over the same bars so  *)
(* that properties comparing two runs can be stated.  SpecCall follows a   *)
(* simulator from its call, before anything is validated or assigned;      *)
(* SpecFn calls round_strike, bs_price and buy_and_hold_equity on their    *)
(* own; SpecMain is a stock run set up by main.py (position type, flags    *)
(* and the moving-average signal of src/src/strategies.py).                *)
(***************************************************************************)
EXTENDS Integers, Sequences, FiniteSets, TLC

----------------------------------------------------------------------------
(* Exact rational arithmetic standing in for float arithmetic.             *)

Abs(x) == IF x < 0 THEN -x ELSE x

RECURSIVE GCD(_, _)
GCD(a, b) == IF b = 0 THEN a ELSE GCD(b, a % b)

Norm(num, den) ==
    LET g == GCD(Abs(num), Abs(den))
        s == IF den < 0 THEN -1 ELSE 1
    IN  <<(s * num) \div g, (s * den) \div g>>

\* v named once: F is applied to the value of v
Let(v, F(_)) == F(v)

R(x) == <<x, 1>>
Q(num, den) == Norm(num, den)
Zero == <<0, 1>>
One == <<1, 1>>

RNeg(a) == <<-a[1], a[2]>>
RAdd(a, b) ==
    LET g == GCD(a[2], b[2])
    IN  Norm(a[1] * (b[2] \div g) + b[1] * (a[2] \div g), (a[2] \div g) * b[2])
RSub(a, b) == RAdd(a, RNeg(b))
RMul(a, b) ==
    LET x == Norm(a[1], b[2])
        y == Norm(b[1], a[2])
    IN  <<x[1] * y[1], x[2] * y[2]>>
RDiv(a, b) == RMul(a, Norm(b[2], b[1]))
RLt(a, b) ==
    LET g == GCD(a[2], b[2])
    IN  a[1] * (b[2] \div g) < b[1] * (a[2] \div g)
RLe(a, b) == ~RLt(b, a)
RGt(a, b) == RLt(b, a)
RGe(a, b) == ~RLt(a, b)
RMax(a, b) == IF RLt(a, b) THEN b ELSE a
RMin(a, b) == IF RLt(b, a) THEN b ELSE a
RAbs(a) == <<Abs(a[1]), a[2]>>
IsPos(a) == a[1] > 0
IsNeg(a) == a[1] < 0
IsZero(a) == a[1] = 0

\* a round() whose ties go up
PyRoundHalfUp(a) ==
    LET f == a[1] \div a[2]
    IN  IF 2 * (a[1] - f * a[2]) < a[2] THEN f ELSE f + 1
\* Python's round(): nearest integer, a tie goes to the even neighbour.
PyRound(a) ==
    LET f == a[1] \div a[2]
        twice == 2 * (a[1] - f * a[2])
    IN  IF twice < a[2] THEN f
        ELSE IF twice > a[2] THEN f + 1
        ELSE IF f % 2 = 0 THEN f ELSE f + 1

----------------------------------------------------------------------------
(* Bounds of the model.                                                    *)

MaxBars == 4                \* longest frame, len(df)
PairBars == 3               \* longest frame of a two-run comparison
ConstBars == 5              \* longest frame of a constant-price run
CallBars == 3               \* longest frame of a run followed from the call
MainBars == 4               \* longest frame of a run started by main
FnBars == 3                 \* longest close series given to the benchmark

(* Program constants.                                                      *)

BpsScale == 10000
TradingDays == 252
DefaultVolPct == 25
VolFloorPct == 5

NaN == <<0, 0>>             \* a missing RV value; never a rational (den = 0)

----------------------------------------------------------------------------
(* src/src/options.py                                                      *)

\* an expiry value without the floor at 0
IntrinsicSigned(S, K, option_type) ==
    IF option_type = "call" THEN RSub(S, K) ELSE RSub(K, S)
\* if T <= 0: max(S - K, 0.0) for a call, max(K - S, 0.0) otherwise
Intrinsic(S, K, option_type) ==
    IF option_type = "call" THEN RMax(RSub(S, K), Zero) ELSE RMax(RSub(K, S), Zero)

\* The Black-Scholes value for T > 0 is transcendental (log, erf, exp) and has
\* no exact rational form.  It is replaced by a rational stand-in that keeps
\* what the simulators rely on: a deterministic function of (S, K, T, sigma),
\* non-negative, at least the intrinsic value at r = 0, growing with sigma and
\* T, and 0 when the floored S or K is negligible (the epsilon floor 1e-8 is
\* taken at its limit 0).
TimeValue(S, K, days, sigma) ==
    LET base == RMax(RMin(S, K), Zero)
    IN  RMul(RMul(sigma, Q(days, TradingDays)), base)

\* bs_price(S, K, T, sigma, r, option_type) with T = days / 252.
bs_price(S, K, days, sigma, r, option_type) ==
    IF days <= 0
    THEN Intrinsic(S, K, option_type)
    ELSE RAdd(Intrinsic(RMax(S, Zero), RMax(K, Zero), option_type),
              TimeValue(S, K, days, sigma))

round_strike(S, step) == RMul(R(PyRound(RDiv(S, step))), step)

----------------------------------------------------------------------------
(* src/src/backtester.py: cost model                                        *)

\* a cost that is never charged
_trade_cost_waived(notional, fee_bps, slippage_bps) == Zero
\* notional * (fee_bps + slippage_bps) / 10_000.0 (the rate is formed first so
\* that the exact intermediate products stay small; the value is the same)
_trade_cost(notional, fee_bps, slippage_bps) ==
    RMul(notional, RDiv(RAdd(fee_bps, slippage_bps), R(BpsScale)))

\* a benchmark that is undefined at every bar when the first close is <= 0
buy_and_hold_equity_nan(closes, initial_cash) ==
    IF IsPos(closes[1])
    THEN [j \in 1..Len(closes) |->
             RMul(RDiv(initial_cash, closes[1]), closes[j])]
    ELSE [j \in 1..Len(closes) |-> NaN]
\* shares = initial_cash / first if first > 0 else 0.0;
\* equity = shares * df["Close"]
buy_and_hold_equity(closes, initial_cash) ==
    Let(IF IsPos(closes[1]) THEN RDiv(initial_cash, closes[1]) ELSE Zero,
        LAMBDA shares : [j \in 1..Len(closes) |-> RMul(shares, closes[j])])

----------------------------------------------------------------------------
(* src/src/backtester.py: helpers shared by the three simulators           *)

\* exec_price = df["Open"] if cfg.execution == "next_open" else df["Close"]
ExecPrice(c, bar) == IF c.execution = "next_open" THEN R(bar.Open) ELSE R(bar.Close)

\* sigma = RV[i] (0.25 when NaN), floored at 0.05
Sigma(rv) ==
    RMax(IF rv = NaN THEN Q(DefaultVolPct, 100) ELSE rv, Q(VolFloorPct, 100))

FeeRate(c) == RDiv(RAdd(R(c.fee_bps), R(c.slippage_bps)), R(BpsScale))

Cost(c, notional) == _trade_cost(notional, R(c.fee_bps), R(c.slippage_bps))

\* buy_shares at px_exec: notional, its cost and the outlay
Purchase(c, buy_shares, px_exec) ==
    Let(RMul(buy_shares, px_exec), LAMBDA notional :
    Let(Cost(c, notional), LAMBDA open_cost :
        [buy_shares |-> buy_shares, notional |-> notional,
         open_cost |-> open_cost, total |-> RAdd(notional, open_cost)]))

\* a purchase that is never scaled down to the cash at hand
BuySizingUnclamped(c, cash, px_exec) ==
    Purchase(c, RDiv(RMul(cash, c.max_leverage), px_exec), px_exec)
\* Sizing of a stock purchase: invest cash * max_leverage, and when the outlay
\* (notional + cost) exceeds cash, buy cash / (px * (1 + k)) shares instead.
BuySizing(c, cash, px_exec) ==
    Let(Purchase(c, RDiv(RMul(cash, c.max_leverage), px_exec), px_exec), LAMBDA b :
        IF RGt(b.total, cash)
        THEN Purchase(c, RDiv(cash, RMul(px_exec, RAdd(One, FeeRate(c)))), px_exec)
        ELSE b)

\* settlement one bar after the expiry index
ExpiredLate(has_leg, i, expiry_i) == has_leg /\ i > expiry_i
\* An open option leg is settled at bar i when i >= its expiry index.
Expired(has_leg, i, expiry_i) == has_leg /\ i >= expiry_i

\* an expiry index that is not clamped to the last bar
ExpiryIndexUnclamped(c, i, len) == i + c.option_dte_days
\* expiry_i = min(i + cfg.option_dte_days, len(df) - 1)
ExpiryIndex(c, i, len) ==
    IF i + c.option_dte_days < len - 1 THEN i + c.option_dte_days ELSE len - 1

\* remaining_days = max(expiry_i - i, 0)
RemainingDays(expiry_i, i) == IF expiry_i - i > 0 THEN expiry_i - i ELSE 0

\* What a bar did besides the ledger row (recorded for the properties only).
NoEvent ==
    [target |-> 0, current |-> 0, traded |-> FALSE, opened_long |-> FALSE,
     settled |-> FALSE, settle_credit |-> Zero, exited |-> FALSE,
     exit_days |-> 0, entered |-> FALSE, rejected |-> FALSE, charged |-> Zero,
     px_pos |-> FALSE, debit |-> Zero, sigma |-> Zero, exit_px |-> Zero]

----------------------------------------------------------------------------
(* run_stock_backtest: one loop iteration                                   *)

\* permission rules
PermissionTarget(c, raw) ==
    Let(IF c.long_only THEN (IF raw = 1 THEN 1 ELSE 0) ELSE raw, LAMBDA t1 :
        IF t1 < 0 /\ ~c.allow_short THEN 0 ELSE t1)

\* a position sign that does not see a short position
CurrentPositionLongOnly(shares) == IF IsPos(shares) THEN 1 ELSE 0
\* current position from shares sign
CurrentPosition(shares) ==
    IF IsPos(shares) THEN 1 ELSE IF IsNeg(shares) THEN -1 ELSE 0

\* trade_shares = 0.0; tcost = 0.0 (charged: the cost taken out of cash)
StockStart(s) ==
    [cash |-> s.cash, shares |-> s.shares, trade_shares |-> Zero,
     tcost |-> Zero, charged |-> Zero]

\* a close that books the cover of a short as a sale of abs(shares)
StockCloseAsSale(c, w, current, px_exec) ==
    Let(RMul(RAbs(w.shares), px_exec), LAMBDA notional :
    Let(Cost(c, notional), LAMBDA tcost :
        IF current = 1
        THEN [w EXCEPT !.cash = RAdd(w.cash, RSub(notional, tcost)),
                       !.trade_shares = RSub(w.trade_shares, w.shares),
                       !.shares = Zero, !.tcost = tcost, !.charged = tcost]
        ELSE IF current = -1
        THEN [w EXCEPT !.cash = RSub(w.cash, RAdd(notional, tcost)),
                       !.trade_shares = RSub(w.trade_shares, RAbs(w.shares)),
                       !.shares = Zero, !.tcost = tcost, !.charged = tcost]
        ELSE w))
\* 1) close current: sell all long shares, or buy back the short
StockClose(c, w, current, px_exec) ==
    Let(RMul(RAbs(w.shares), px_exec), LAMBDA notional :
    Let(Cost(c, notional), LAMBDA tcost :
        IF current = 1
        THEN [w EXCEPT !.cash = RAdd(w.cash, RSub(notional, tcost)),
                       !.trade_shares = RSub(w.trade_shares, w.shares),
                       !.shares = Zero, !.tcost = tcost, !.charged = tcost]
        ELSE IF current = -1
        THEN [w EXCEPT !.cash = RSub(w.cash, RAdd(notional, tcost)),
                       !.trade_shares = RSub(w.trade_shares, w.shares),
                       !.shares = Zero, !.tcost = tcost, !.charged = tcost]
        ELSE w))

\* an open-long that books its cost without deducting it
StockOpenLongCostFree(c, w, px_exec) ==
    Let(BuySizing(c, w.cash, px_exec), LAMBDA b :
        [w EXCEPT !.cash = RSub(w.cash, b.notional),
                  !.shares = RAdd(w.shares, b.buy_shares),
                  !.trade_shares = RAdd(w.trade_shares, b.buy_shares),
                  !.tcost = RAdd(w.tcost, b.open_cost),
                  !.charged = w.charged])
\* 2) open new target: +1
StockOpenLong(c, w, px_exec) ==
    Let(BuySizing(c, w.cash, px_exec), LAMBDA b :
        [w EXCEPT !.cash = RSub(w.cash, b.total),
                  !.shares = RAdd(w.shares, b.buy_shares),
                  !.trade_shares = RAdd(w.trade_shares, b.buy_shares),
                  !.tcost = RAdd(w.tcost, b.open_cost),
                  !.charged = RAdd(w.charged, b.open_cost)])

\* 2) open new target: -1 (receive the notional, pay the cost)
StockOpenShort(c, w, px_exec) ==
    Let(RDiv(RMul(w.cash, c.max_leverage), px_exec), LAMBDA short_shares :
    Let(RMul(short_shares, px_exec), LAMBDA notional :
    Let(Cost(c, notional), LAMBDA open_cost :
        [w EXCEPT !.cash = RAdd(w.cash, RSub(notional, open_cost)),
                  !.shares = RSub(w.shares, short_shares),
                  !.trade_shares = RSub(w.trade_shares, short_shares),
                  !.tcost = RAdd(w.tcost, open_cost),
                  !.charged = RAdd(w.charged, open_cost)])))

\* if target != current and px_exec > 0: close current, then open the target
StockTrade(c, s, target, current, px_exec) ==
    Let(StockClose(c, StockStart(s), current, px_exec), LAMBDA w1 :
        IF target = 1 THEN StockOpenLong(c, w1, px_exec)
        ELSE IF target = -1 THEN StockOpenShort(c, w1, px_exec)
        ELSE w1)

StockBar(c, s, raw, bar) ==
    Let(PermissionTarget(c, raw), LAMBDA target :
    Let(ExecPrice(c, bar), LAMBDA px_exec :
    Let(R(bar.Close), LAMBDA px_close :
    Let(CurrentPosition(s.shares), LAMBDA current :
    Let(target # current /\ IsPos(px_exec), LAMBDA trade :
    Let(IF trade THEN StockTrade(c, s, target, current, px_exec)
        ELSE StockStart(s), LAMBDA w2 :
        [st |-> [s EXCEPT !.cash = w2.cash, !.shares = w2.shares],
         row |-> [Close |-> px_close, Cash |-> w2.cash, Shares |-> w2.shares,
                  OptValue |-> Zero,
                  Equity |-> RAdd(w2.cash, RMul(w2.shares, px_close)),
                  Trade |-> w2.trade_shares, TradeCost |-> w2.tcost],
         ev |-> [NoEvent EXCEPT !.target = target, !.current = current,
                                !.traded = trade,
                                !.opened_long = trade /\ target = 1,
                                !.charged = w2.charged,
                                !.px_pos = IsPos(px_exec)]]))))))

----------------------------------------------------------------------------
(* run_long_call_backtest: one loop iteration                                *)

\* contracts = max(int(cfg.call_contracts), 1)
Contracts(c) == IF c.call_contracts > 1 THEN c.call_contracts ELSE 1

\* the value of a leg that is not there, and of a bar without a trade
NoTrade(s) == [st |-> s, tcost |-> Zero, trades |-> 0, charged |-> Zero,
               put_opened |-> FALSE, debit |-> Zero]

\* settle at expiry at close: intrinsic only, leg cleared
CallSettle(c, s, px_close, i) ==
    IF Expired(s.has_leg, i, s.expiry_i)
    THEN Let(RMul(RMax(RSub(px_close, s.strike), Zero),
                  R(c.option_contract_multiplier * Contracts(c))), LAMBDA credit :
             [st |-> [cash |-> RAdd(s.cash, credit), shares |-> s.shares,
                      has_leg |-> FALSE, strike |-> Zero, expiry_i |-> -1],
              settled |-> TRUE, credit |-> credit])
    ELSE [st |-> s, settled |-> FALSE, credit |-> Zero]

\* an entry scaled down to the cash at hand when the debit exceeds it
CallEnterPartial(c, s, px_exec, sigma, i, len) ==
    Let(round_strike(RMul(px_exec, RAdd(One, c.call_otm_pct)),
                     c.option_strike_step), LAMBDA K :
    Let(RMul(bs_price(px_exec, K, c.option_dte_days, sigma,
                      c.risk_free_rate, "call"),
             R(c.option_contract_multiplier * Contracts(c))), LAMBDA notional :
    Let(Cost(c, notional), LAMBDA tcost :
    Let(RAdd(notional, tcost), LAMBDA total :
        [st |-> [s EXCEPT !.cash = RSub(s.cash, RMin(total, s.cash)),
                          !.has_leg = TRUE, !.strike = K,
                          !.expiry_i = ExpiryIndex(c, i, len)],
         tcost |-> tcost, trades |-> 1, charged |-> tcost,
         put_opened |-> FALSE, debit |-> total]))))
\* enter: priced at the full days-to-expiry; taken only if cash covers it.
\* tcost is assigned before the cash test.
CallEnter(c, s, px_exec, sigma, i, len) ==
    Let(round_strike(RMul(px_exec, RAdd(One, c.call_otm_pct)),
                     c.option_strike_step), LAMBDA K :
    Let(RMul(bs_price(px_exec, K, c.option_dte_days, sigma,
                      c.risk_free_rate, "call"),
             R(c.option_contract_multiplier * Contracts(c))), LAMBDA notional :
    Let(Cost(c, notional), LAMBDA tcost :
    Let(RAdd(notional, tcost), LAMBDA total :
        IF RLe(total, s.cash)
        THEN [st |-> [s EXCEPT !.cash = RSub(s.cash, total), !.has_leg = TRUE,
                               !.strike = K,
                               !.expiry_i = ExpiryIndex(c, i, len)],
              tcost |-> tcost, trades |-> 1, charged |-> tcost,
              put_opened |-> FALSE, debit |-> total]
        ELSE [st |-> s, tcost |-> tcost, trades |-> 0, charged |-> Zero,
              put_opened |-> FALSE, debit |-> total]))))

\* an exit that sells the leg at its intrinsic value
CallExitIntrinsic(c, s, px_exec, sigma, i) ==
    Let(RMul(bs_price(px_exec, s.strike, 0, sigma, c.risk_free_rate, "call"),
             R(c.option_contract_multiplier * Contracts(c))), LAMBDA proceeds :
    Let(Cost(c, proceeds), LAMBDA tcost :
        [st |-> [s EXCEPT !.cash = RAdd(s.cash, RSub(proceeds, tcost)),
                          !.has_leg = FALSE, !.strike = Zero, !.expiry_i = -1],
         tcost |-> tcost, trades |-> 1, charged |-> tcost,
         put_opened |-> FALSE, debit |-> Zero]))
\* exit: sold at the pricer's value for the remaining time
CallExit(c, s, px_exec, sigma, i) ==
    Let(RMul(bs_price(px_exec, s.strike, RemainingDays(s.expiry_i, i), sigma,
                      c.risk_free_rate, "call"),
             R(c.option_contract_multiplier * Contracts(c))), LAMBDA proceeds :
    Let(Cost(c, proceeds), LAMBDA tcost :
        [st |-> [s EXCEPT !.cash = RAdd(s.cash, RSub(proceeds, tcost)),
                          !.has_leg = FALSE, !.strike = Zero, !.expiry_i = -1],
         tcost |-> tcost, trades |-> 1, charged |-> tcost,
         put_opened |-> FALSE, debit |-> Zero]))

\* a mark that prices the leg at its full term instead of the remaining days
CallMarkFullTerm(c, s, px_close, sigma, i) ==
    IF s.has_leg
    THEN RMul(bs_price(px_close, s.strike, c.option_dte_days, sigma,
                       c.risk_free_rate, "call"),
              R(c.option_contract_multiplier * Contracts(c)))
    ELSE Zero
\* mark-to-market at close
CallMark(c, s, px_close, sigma, i) ==
    IF s.has_leg
    THEN RMul(bs_price(px_close, s.strike, RemainingDays(s.expiry_i, i), sigma,
                       c.risk_free_rate, "call"),
              R(c.option_contract_multiplier * Contracts(c)))
    ELSE Zero

\* the row and the record of a long-call bar: a the settlement, b the trade
LongCallRow(c, px_exec, px_close, sigma, target, a, enter, exit, b, opt_val, i) ==
    [st |-> b.st,
     row |-> [Close |-> px_close, Cash |-> b.st.cash, Shares |-> Zero,
              OptValue |-> opt_val, Equity |-> RAdd(b.st.cash, opt_val),
              Trade |-> R(b.trades), TradeCost |-> b.tcost],
     ev |-> [NoEvent EXCEPT !.target = target,
                            !.current = IF a.st.has_leg THEN 1 ELSE 0,
                            !.traded = b.trades > 0,
                            !.settled = a.settled,
                            !.settle_credit = a.credit,
                            !.exited = exit,
                            !.exit_days = IF exit THEN a.st.expiry_i - i ELSE 0,
                            !.exit_px = IF exit THEN px_exec ELSE Zero,
                            !.entered = enter /\ b.trades = 1,
                            !.rejected = enter /\ b.trades = 0,
                            !.charged = b.charged,
                            !.px_pos = IsPos(px_exec),
                            !.debit = b.debit, !.sigma = sigma]]

LongCallBar(c, s, raw, bar, i, len) ==
    Let(ExecPrice(c, bar), LAMBDA px_exec :
    Let(R(bar.Close), LAMBDA px_close :
    Let(Sigma(bar.RV), LAMBDA sigma :
    Let(CallSettle(c, s, px_close, i), LAMBDA a :
    Let(IF raw = 1 THEN 1 ELSE 0, LAMBDA target :
    Let(target = 1 /\ ~a.st.has_leg, LAMBDA enter :
    Let(~enter /\ target = 0 /\ a.st.has_leg, LAMBDA exit :
    Let(IF enter THEN CallEnter(c, a.st, px_exec, sigma, i, len)
        ELSE IF exit THEN CallExit(c, a.st, px_exec, sigma, i)
        ELSE NoTrade(a.st), LAMBDA b :
        LongCallRow(c, px_exec, px_close, sigma, target, a, enter, exit, b,
                    CallMark(c, b.st, px_close, sigma, i), i)))))))))

----------------------------------------------------------------------------
(* run_stock_protective_put_backtest: one loop iteration                     *)

\* settle put at expiry (one contract)
PutSettle(c, s, px_close, i) ==
    IF Expired(s.has_leg, i, s.expiry_i)
    THEN Let(RMul(RMax(RSub(s.strike, px_close), Zero),
                  R(c.option_contract_multiplier)), LAMBDA credit :
             [st |-> [cash |-> RAdd(s.cash, credit), shares |-> s.shares,
                      has_leg |-> FALSE, strike |-> Zero, expiry_i |-> -1],
              settled |-> TRUE, credit |-> credit])
    ELSE [st |-> s, settled |-> FALSE, credit |-> Zero]

\* stock sizing of the protective put: scaled down to cash / (px * (1 + k))
PutBuySizing(c, cash, px_exec) ==
    Let(Purchase(c, RDiv(RMul(cash, c.max_leverage), px_exec), px_exec), LAMBDA b :
        IF RGt(b.total, cash)
        THEN Purchase(c, RDiv(cash, RMul(px_exec, RAdd(One, FeeRate(c)))), px_exec)
        ELSE b)

\* buy ATM put if cash is left after the stock purchase b
PutBuy(c, s, b, cash1, K, put_notional, put_cost, i, len) ==
    IF RLe(RAdd(put_notional, put_cost), cash1)
    THEN [st |-> [cash |-> RSub(cash1, RAdd(put_notional, put_cost)),
                  shares |-> RAdd(s.shares, b.buy_shares),
                  has_leg |-> TRUE, strike |-> K,
                  expiry_i |-> ExpiryIndex(c, i, len)],
          tcost |-> RAdd(b.open_cost, put_cost), trades |-> 2,
          charged |-> RAdd(b.open_cost, put_cost), put_opened |-> TRUE,
          debit |-> RAdd(put_notional, put_cost)]
    ELSE [st |-> [s EXCEPT !.cash = cash1,
                           !.shares = RAdd(s.shares, b.buy_shares)],
          tcost |-> b.open_cost, trades |-> 1,
          charged |-> b.open_cost, put_opened |-> FALSE,
          debit |-> RAdd(put_notional, put_cost)]

\* stock entry, then the ATM put if cash is left
PutEnter(c, s, px_exec, sigma, i, len) ==
    Let(PutBuySizing(c, s.cash, px_exec), LAMBDA b :
    Let(round_strike(px_exec, c.option_strike_step), LAMBDA K :
    Let(RMul(bs_price(px_exec, K, c.option_dte_days, sigma,
                      c.risk_free_rate, "put"),
             R(c.option_contract_multiplier)), LAMBDA put_notional :
        PutBuy(c, s, b, RSub(s.cash, b.total), K, put_notional,
               Cost(c, put_notional), i, len))))

\* the put sold with the stock: cash1 is the cash after the stock sale
PutSell(c, s, cash1, stock_cost, proceeds, put_cost) ==
    IF s.has_leg
    THEN [st |-> [cash |-> RAdd(cash1, RSub(proceeds, put_cost)),
                  shares |-> Zero, has_leg |-> FALSE, strike |-> Zero,
                  expiry_i |-> -1],
          tcost |-> RAdd(stock_cost, put_cost), trades |-> 2,
          charged |-> RAdd(stock_cost, put_cost), put_opened |-> FALSE,
          debit |-> Zero]
    ELSE [st |-> [s EXCEPT !.cash = cash1, !.shares = Zero],
          tcost |-> stock_cost, trades |-> 1, charged |-> stock_cost,
          put_opened |-> FALSE, debit |-> Zero]

\* stock exit, and the put with it when one is open
PutExit(c, s, px_exec, sigma, i) ==
    Let(RMul(s.shares, px_exec), LAMBDA sell_notional :
    Let(Cost(c, sell_notional), LAMBDA stock_cost :
    Let(RMul(bs_price(px_exec, s.strike, RemainingDays(s.expiry_i, i), sigma,
                      c.risk_free_rate, "put"),
             R(c.option_contract_multiplier)), LAMBDA proceeds :
        PutSell(c, s, RAdd(s.cash, RSub(sell_notional, stock_cost)),
                stock_cost, proceeds, Cost(c, proceeds)))))

PutMark(c, s, px_close, sigma, i) ==
    IF s.has_leg
    THEN RMul(bs_price(px_close, s.strike, RemainingDays(s.expiry_i, i), sigma,
                       c.risk_free_rate, "put"),
              R(c.option_contract_multiplier))
    ELSE Zero

\* the row and the record of a protective-put bar: a the settlement, b the trade
ProtectivePutRow(c, px_exec, px_close, sigma, target, current, a, enter, exit, b, put_val, i) ==
    [st |-> b.st,
     row |-> [Close |-> px_close, Cash |-> b.st.cash, Shares |-> b.st.shares,
              OptValue |-> put_val,
              Equity |-> RAdd(RAdd(b.st.cash, RMul(b.st.shares, px_close)),
                              put_val),
              Trade |-> R(b.trades), TradeCost |-> b.tcost],
     ev |-> [NoEvent EXCEPT !.target = target, !.current = current,
                            !.traded = b.trades > 0,
                            !.opened_long = enter,
                            !.settled = a.settled,
                            !.settle_credit = a.credit,
                            !.exited = exit /\ a.st.has_leg,
                            !.exit_days = IF exit /\ a.st.has_leg
                                          THEN a.st.expiry_i - i ELSE 0,
                            !.exit_px = IF exit /\ a.st.has_leg
                                        THEN px_exec ELSE Zero,
                            !.entered = enter /\ b.put_opened,
                            !.rejected = enter /\ ~b.put_opened,
                            !.charged = b.charged,
                            !.px_pos = IsPos(px_exec),
                            !.debit = b.debit, !.sigma = sigma]]

ProtectivePutBar(c, s, raw, bar, i, len) ==
    Let(ExecPrice(c, bar), LAMBDA px_exec :
    Let(R(bar.Close), LAMBDA px_close :
    Let(Sigma(bar.RV), LAMBDA sigma :
    Let(PutSettle(c, s, px_close, i), LAMBDA a :
    Let(IF raw = 1 THEN 1 ELSE 0, LAMBDA target :
    Let(IF IsPos(a.st.shares) THEN 1 ELSE 0, LAMBDA current :
    Let(target = 1 /\ current = 0 /\ IsPos(px_exec), LAMBDA enter :
    Let(~enter /\ target = 0 /\ current = 1 /\ IsPos(px_exec), LAMBDA exit :
    Let(IF enter THEN PutEnter(c, a.st, px_exec, sigma, i, len)
        ELSE IF exit THEN PutExit(c, a.st, px_exec, sigma, i)
        ELSE NoTrade(a.st), LAMBDA b :
        ProtectivePutRow(c, px_exec, px_close, sigma, target, current, a, enter,
                         exit, b, PutMark(c, b.st, px_close, sigma, i), i))))))))))

----------------------------------------------------------------------------
(* src/src/metrics.py                                                        *)

RECURSIVE CumMax(_, _)
\* equity.cummax() at row j (1-based)
CumMax(eq, j) == IF j = 1 THEN eq[1] ELSE RMax(CumMax(eq, j - 1), eq[j])

RECURSIVE SeqMin(_, _)
SeqMin(xs, j) == IF j = 1 THEN xs[1] ELSE RMin(SeqMin(xs, j - 1), xs[j])

RECURSIVE SeqSum(_, _)
SeqSum(xs, j) == IF j = 0 THEN Zero ELSE RAdd(SeqSum(xs, j - 1), xs[j])

\* the smallest equity / peak, without the - 1.0
max_drawdown_ratio(eq) ==
    SeqMin([j \in 1..Len(eq) |-> RDiv(eq[j], CumMax(eq, j))], Len(eq))
\* dd = equity / peak - 1; min over the rows.  NaN when a peak is 0.
max_drawdown(eq) ==
    IF \E j \in 1..Len(eq) : IsZero(CumMax(eq, j))
    THEN NaN
    ELSE SeqMin([j \in 1..Len(eq) |-> RSub(RDiv(eq[j], CumMax(eq, j)), One)],
                Len(eq))

\* The columns summarize reads.
SummarizeReads == {"Equity", "EquityReturn", "TradeShares", "TradeCost"}

\* summarize(bt): CAGR and Sharpe (a power and a square root) are left out.
summarize(rows) ==
    [FinalEquity |-> rows[Len(rows)].Equity,
     MaxDrawdown |-> max_drawdown([j \in 1..Len(rows) |-> rows[j].Equity]),
     NumTrades |-> Cardinality({j \in 1..Len(rows) : ~IsZero(rows[j].Trade)}),
     TotalCosts |-> SeqSum([j \in 1..Len(rows) |-> rows[j].TradeCost], Len(rows))]

----------------------------------------------------------------------------
(* The returned frames                                                       *)

Columns(v) ==
    IF v = "stock"
    THEN {"Close", "Cash", "Shares", "Equity", "TradeShares", "TradeCost",
          "EquityReturn"}
    ELSE IF v = "long_call"
    THEN {"Close", "Cash", "OptionValue", "Equity", "TradeCount", "TradeCost",
          "EquityReturn"}
    ELSE {"Close", "Cash", "Shares", "PutValue", "Equity", "TradeCount",
          "TradeCost", "EquityReturn"}

----------------------------------------------------------------------------
(* Inputs                                                                    *)

Runs == {"A", "B"}
Variants == {"stock", "long_call", "protective_put"}
Executions == {"next_open", "next_close"}
Desired == {-1, 0, 1}
Permissions == {<<TRUE, FALSE>>, <<TRUE, TRUE>>, <<FALSE, FALSE>>, <<FALSE, TRUE>>}
\* <<fee_bps, slippage_bps, max_leverage>>: no cost, 25% and 200% of the
\* notional; full, half, no and double investment
StockSizing ==
    {<<0, 0, One>>, <<2000, 500, One>>, <<15000, 5000, One>>,
     <<4000, 1000, Q(1, 2)>>, <<0, 0, Zero>>, <<0, 0, R(2)>>}
OptionFees == {<<0, 0>>, <<2000, 500>>}
\* the long call is also run with a cost of 200% of the notional
CallFees == OptionFees \cup {<<15000, 5000>>}
\* <<option_dte_days, call_contracts, call_otm_pct>>
CallTerms == {<<1, 1, Zero>>, <<2, 1, Q(1, 2)>>, <<1, 100, Zero>>, <<2, 100, Zero>>}
InitialCashes == {R(100)}

\* Bars [Open, Close, RV].  The stock simulator never reads RV.
StockBars ==
    {[Open |-> o, Close |-> cl, RV |-> NaN] : o \in {0, 1, 2}, cl \in {1, 2}}
        \ {[Open |-> 0, Close |-> 2, RV |-> NaN]}
OptionBars ==
    {[Open |-> 1, Close |-> 1, RV |-> NaN],
     [Open |-> 1, Close |-> 2, RV |-> Q(63, 25)],
     [Open |-> 2, Close |-> 1, RV |-> Q(1, 100)],
     [Open |-> 2, Close |-> 2, RV |-> Q(63, 25)]}

\* BacktestConfig, with the defaults of the dataclass where a variant does
\* not read a field.
Config(cash, ex, fp, lev, perm, dte, contracts, step, otm) ==
    [initial_cash |-> cash, fee_bps |-> fp[1], slippage_bps |-> fp[2],
     execution |-> ex, max_leverage |-> lev,
     long_only |-> perm[1], allow_short |-> perm[2],
     option_dte_days |-> dte, option_contract_multiplier |-> 100,
     option_strike_step |-> step, risk_free_rate |-> Zero,
     call_otm_pct |-> otm, call_contracts |-> contracts]

StockConfigs ==
    {Config(cash, ex, <<z[1], z[2]>>, z[3], perm, 30, 1, One, Zero) :
        cash \in InitialCashes, ex \in Executions, z \in StockSizing, perm \in Permissions}

CallConfigs ==
    {Config(cash, ex, fp, One, <<TRUE, FALSE>>, t[1], t[2], One, t[3]) :
        cash \in InitialCashes, ex \in Executions, fp \in CallFees, t \in CallTerms}

\* max_leverage of the protective put: half, full and no investment
PutLeverages == {Q(1, 2), One, Zero}

PutConfigs ==
    {Config(cash, ex, fp, lev, <<TRUE, FALSE>>, dte, 1, One, Zero) :
        cash \in InitialCashes, ex \in Executions, fp \in OptionFees, lev \in PutLeverages, dte \in {1, 2}}

ConfigsOf(v) ==
    IF v = "stock" THEN StockConfigs
    ELSE IF v = "long_call" THEN CallConfigs ELSE PutConfigs

\* <<fee_bps, slippage_bps>> of the costlier run of a cost comparison
CostlierFees == {<<2000, 500>>, <<4000, 1000>>, <<8000, 2000>>, <<15000, 5000>>}

\* the configurations equal to a but for a larger fee_bps or slippage_bps
HigherCost(a) ==
    {[a EXCEPT !.fee_bps = f[1], !.slippage_bps = f[2]] :
        f \in {g \in CostlierFees :
                  /\ a.fee_bps <= g[1] /\ a.slippage_bps <= g[2]
                  /\ a.fee_bps + a.slippage_bps < g[1] + g[2]}}

\* The bars iteration i may see.  Under next_close Open is not read.
BarsFor(v, c) ==
    {b \in (IF v = "stock" THEN StockBars ELSE OptionBars) :
        c.execution = "next_close" => b.Open = b.Close}

\* Bar 0: only its close is read (into the first ledger row).
FirstCloses(m) == IF m \in {"const", "main"} THEN {1, 2} ELSE {1}

DesiredFor(v) == IF v = "stock" THEN Desired ELSE {0, 1}

\* The columns of the input frame, with and without the realized volatility.
FrameColumns == {"Open", "Close", "RV"}
Frames == {FrameColumns, FrameColumns \ {"RV"}}

\* values of cfg.execution that are neither "next_open" nor "next_close"
InvalidExecutions == {"next_bar"}

\* the configurations a simulator can be called with, valid or not
CallInputs(v) ==
    ConfigsOf(v) \cup
        {[c EXCEPT !.execution = x] : c \in ConfigsOf(v), x \in InvalidExecutions}

----------------------------------------------------------------------------
(* State                                                                     *)

VARIABLES
    variant,    \* which simulator is run
    mode,       \* "single": run A only; "const": run A on a constant price;
                \* "cost": run B is run A's input under a costlier cfg;
                \* "lookahead": run B is run A with the desired entry of the
                \* bar just processed replaced by another value;
                \* "main": run A is a stock run set up by main
    cfg,        \* cfg[r]: the BacktestConfig of run r
    len,        \* len(df)
    columns,    \* df.columns of the input frame
    pc,         \* "call", "loop", "returned", "summarized", "KeyError",
                \* "ValueError: RV", "ValueError: execution"; for a call of a
                \* function of fn: "fn_call", "fn_returned"
    i,          \* the loop variable: next bar to process
    pending,    \* desired.iloc[i - 1], the entry iteration i reads
    st,         \* st[r]: cash, shares and the option leg of run r
    ledger,     \* ledger[r]: the *_hist lists of run r, one row per bar
    ev,         \* ev[r]: what the last bar of run r did
    summary,    \* summarize(bt) of run A once computed
    fn,         \* the call of a pure function: its name and arguments;
                \* in mode "main", the position type picked in main
    ret         \* the value that call returned

vars == <<variant, mode, cfg, len, columns, pc, i, pending, st, ledger, ev,
          summary, fn, ret>>

NoSummary == [FinalEquity |-> Zero, MaxDrawdown |-> Zero, NumTrades |-> 0,
              TotalCosts |-> Zero]

\* no function of options.py or benchmark call in flight
NoCall == [name |-> "none"]
NoReturn == <<>>

\* the locals of a simulator before any of them is assigned
NoState ==
    [cash |-> NaN, shares |-> NaN, has_leg |-> FALSE, strike |-> NaN,
     expiry_i |-> -1]

\* cash = float(cfg.initial_cash); shares = 0.0; no leg
StartState(c) ==
    [cash |-> c.initial_cash, shares |-> Zero, has_leg |-> FALSE,
     strike |-> Zero, expiry_i |-> -1]

\* the first entries of the *_hist lists
FirstRow(c, close0) ==
    [Close |-> R(close0), Cash |-> c.initial_cash, Shares |-> Zero,
     OptValue |-> Zero, Equity |-> c.initial_cash, Trade |-> Zero,
     TradeCost |-> Zero]

InitWith(m, maxlen) ==
    /\ mode = m
    /\ variant \in Variants
    /\ len \in 1..maxlen
    /\ \E ca \in ConfigsOf(variant) :
         \E cb \in IF m = "cost" THEN HigherCost(ca) ELSE {ca} :
            cfg = [r \in Runs |-> IF r = "A" THEN ca ELSE cb]
    /\ pending \in DesiredFor(variant)
    /\ pc = "loop"
    /\ i = 1
    /\ st = [r \in Runs |-> StartState(cfg[r])]
    /\ \E close0 \in FirstCloses(m) :
         ledger = [r \in Runs |-> <<FirstRow(cfg[r], close0)>>]
    /\ ev = [r \in Runs |-> NoEvent]
    /\ summary = NoSummary
    /\ columns = FrameColumns
    /\ fn = NoCall
    /\ ret = NoReturn

----------------------------------------------------------------------------
(* main.py: position type, configuration and signal series of a stock run   *)

\* prompt_position_type: "1" long only, "2" short only, "3" long + short
PositionChoices == {"long", "short", "both"}

\* Apply long/short selection (stock only): <<long_only, allow_short>>
PositionFlags(pos_choice) ==
    IF pos_choice = "long" THEN <<TRUE, FALSE>>
    ELSE IF pos_choice = "short" THEN <<FALSE, TRUE>>
    ELSE <<FALSE, TRUE>>

\* add_moving_averages with the windows 1 and 2: the close itself, and the
\* mean of the last two closes, NaN on the first bar
SmaFast(close) == close
SmaSlow(prev_close, close) ==
    IF prev_close = NaN THEN NaN ELSE RDiv(RAdd(prev_close, close), RAdd(One, One))

\* long-only desired position: 1 when SMA(fast) > SMA(slow), 0 otherwise
sma_crossover_signals_from_df(fast_ma, slow_ma) ==
    IF fast_ma = NaN \/ slow_ma = NaN THEN 0
    ELSE IF RGt(fast_ma, slow_ma) THEN 1 ELSE 0

\* long + short desired position: +1 above, -1 below, 0 when equal or NaN
sma_crossover_long_short_signals_from_df(fast_ma, slow_ma) ==
    IF fast_ma = NaN \/ slow_ma = NaN THEN 0
    ELSE IF RGt(fast_ma, slow_ma) THEN 1
    ELSE IF RLt(fast_ma, slow_ma) THEN -1 ELSE 0

\* choose signals (args.mode = "stock")
MainSignal(pos_choice, prev_close, close) ==
    IF pos_choice \in {"short", "both"}
    THEN sma_crossover_long_short_signals_from_df(SmaFast(close),
                                                  SmaSlow(prev_close, close))
    ELSE sma_crossover_signals_from_df(SmaFast(close),
                                       SmaSlow(prev_close, close))

\* cfg = BacktestConfig(..., max_leverage=1.0, ...) with the selection applied
MainConfigs(pos_choice) ==
    {Config(cash, ex, fp, One, PositionFlags(pos_choice), 30, 1, One, Zero) :
        cash \in InitialCashes, ex \in Executions, fp \in OptionFees}

\* main in stock mode, at the call of run_stock_backtest: fn holds the
\* position type picked, pending is desired[0] (the slow average is NaN there)
InitMain ==
    /\ mode = "main"
    /\ variant = "stock"
    /\ len \in 1..MainBars
    /\ \E p \in PositionChoices :
         /\ fn = [name |-> "main", pos_choice |-> p]
         /\ \E c \in MainConfigs(p) : cfg = [r \in Runs |-> c]
         /\ \E close0 \in FirstCloses("main") :
              /\ ledger = [r \in Runs |-> <<FirstRow(cfg[r], close0)>>]
              /\ pending = MainSignal(p, NaN, R(close0))
    /\ pc = "loop"
    /\ i = 1
    /\ st = [r \in Runs |-> StartState(cfg[r])]
    /\ ev = [r \in Runs |-> NoEvent]
    /\ summary = NoSummary
    /\ columns = FrameColumns
    /\ ret = NoReturn

Init == InitWith("single", MaxBars)
InitConst == InitWith("const", ConstBars)
InitLookahead == InitWith("lookahead", PairBars)
InitCost == InitWith("cost", PairBars)

\* a target that the entry of the bar being processed can veto
LaggedInputPeek(prev, cur) == IF cur = 0 THEN 0 ELSE prev
\* a target read from the entry of the bar being processed
LaggedInputSameBar(prev, cur) == cur
\* target = int(desired.iloc[i - 1]): the entry revealed one bar earlier, not
\* the entry of the bar being processed.
LaggedInput(prev, cur) == prev

\* One iteration of the simulator's loop.
BarStep(c, s, b, raw) ==
    IF variant = "stock" THEN StockBar(c, s, raw, b)
    ELSE IF variant = "long_call" THEN LongCallBar(c, s, raw, b, i, len)
    ELSE ProtectivePutBar(c, s, raw, b, i, len)

\* the comparison run: a look-ahead comparison run has had run A's input so
\* far, so it starts the iteration from run A's state and rows
OtherStep(b, db) ==
    IF mode = "lookahead" THEN BarStep(cfg["B"], st["A"], b, LaggedInput(pending, db))
    ELSE IF mode = "cost" THEN BarStep(cfg["B"], st["B"], b, LaggedInput(pending, db))
    ELSE [st |-> st["B"], row |-> <<>>, ev |-> ev["B"]]

\* a loop that stops one bar early
InRangeShort(k, n) == k < n - 1
\* k in range(1, n), for k >= 1
InRange(k, n) == k < n

\* "RV" not in df.columns is tested by the two option simulators only
RequiresRVCallOnly(v) == v = "long_call"
RequiresRV(v) == v # "stock"

\* an execution test that accepts every value
ValidExecutionAny(c) == TRUE
\* cfg.execution in ("next_open", "next_close")
ValidExecution(c) == c.execution \in Executions

\* The entry of a simulator up to its loop: the column test (option simulators),
\* the execution test, then cash, shares, the leg and the *_hist lists.
Start ==
    /\ pc = "call"
    /\ IF RequiresRV(variant) /\ "RV" \notin columns
       THEN /\ pc' = "ValueError: RV"
            /\ UNCHANGED <<i, st, ledger>>
       ELSE IF ~ValidExecution(cfg["A"])
       THEN /\ pc' = "ValueError: execution"
            /\ UNCHANGED <<i, st, ledger>>
       ELSE /\ pc' = "loop"
            /\ i' = 1
            /\ st' = [r \in Runs |-> StartState(cfg[r])]
            /\ \E close0 \in FirstCloses(mode) :
                 ledger' = [r \in Runs |-> <<FirstRow(cfg[r], close0)>>]
    /\ UNCHANGED <<variant, mode, cfg, len, columns, pending, ev, summary, fn, ret>>

\* for i in range(1, len(df)): ... append to the *_hist lists
Bar ==
    /\ pc = "loop"
    /\ InRange(i, len)
    /\ \E b \in BarsFor(variant, cfg["A"]) :
         \E da \in DesiredFor(variant) :
            \E db \in DesiredFor(variant) :
               /\ mode = "lookahead" => db # da
               /\ mode # "lookahead" => db = da
               /\ mode = "const" =>
                    /\ R(b.Open) = ledger["A"][1].Close
                    /\ R(b.Close) = ledger["A"][1].Close
               /\ mode = "main" =>
                    da = MainSignal(fn.pos_choice, ledger["A"][i].Close,
                                    R(b.Close))
               /\ \E ra \in {BarStep(cfg["A"], st["A"], b, LaggedInput(pending, da))} :
                    \E rb \in {OtherStep(b, db)} :
                       /\ st' = [r \in Runs |-> IF r = "A" THEN ra.st ELSE rb.st]
                       /\ ledger' = [r \in Runs |->
                                       IF r = "A" THEN Append(ledger["A"], ra.row)
                                       ELSE IF mode = "lookahead"
                                       THEN Append(ledger["A"], rb.row)
                                       ELSE IF mode = "cost"
                                       THEN Append(ledger["B"], rb.row)
                                       ELSE ledger["B"]]
                       /\ ev' = [r \in Runs |-> IF r = "A" THEN ra.ev ELSE rb.ev]
               \* the entry of the last bar is read by no iteration
               /\ pending' = IF i + 1 < len THEN da ELSE 0
    /\ i' = i + 1
    /\ UNCHANGED <<variant, mode, cfg, len, columns, pc, summary, fn, ret>>

\* a ratio x / 0 of pandas: inf with the sign of x
Inf(x) == <<IF IsPos(x) THEN 1 ELSE -1, 0>>

\* Equity.pct_change() of one row: cur / prev - 1, NaN for 0 / 0
PctChange(prev, cur) ==
    IF IsZero(prev)
    THEN (IF IsZero(cur) THEN NaN ELSE Inf(cur))
    ELSE RSub(RDiv(cur, prev), One)

\* out["EquityReturn"] = out["Equity"].pct_change().fillna(0.0): the first row
\* has no predecessor (NaN), and NaN is filled with 0
EquityReturn(rows, j) ==
    Let(IF j = 1 THEN NaN ELSE PctChange(rows[j - 1].Equity, rows[j].Equity),
        LAMBDA x : IF x = NaN THEN Zero ELSE x)

\* the frame built from the *_hist lists, with its EquityReturn column
Frame(rows) ==
    [j \in 1..Len(rows) |->
        [Close |-> rows[j].Close, Cash |-> rows[j].Cash,
         Shares |-> rows[j].Shares, OptValue |-> rows[j].OptValue,
         Equity |-> rows[j].Equity, Trade |-> rows[j].Trade,
         TradeCost |-> rows[j].TradeCost,
         EquityReturn |-> EquityReturn(rows, j)]]

\* out = pd.DataFrame({...}); out["EquityReturn"] = ...; return out
Return ==
    /\ pc = "loop"
    /\ ~InRange(i, len)
    /\ pc' = "returned"
    /\ ledger' = [r \in Runs |-> Frame(ledger[r])]
    /\ UNCHANGED <<variant, mode, cfg, len, columns, i, pending, st, ev, summary,
                   fn, ret>>

\* main: stats = summarize(bt, benchmark_equity=bench)
Summarize ==
    /\ pc = "returned"
    /\ IF SummarizeReads \subseteq Columns(variant)
       THEN /\ pc' = "summarized"
            /\ summary' = summarize(ledger["A"])
       ELSE /\ pc' = "KeyError"
            /\ UNCHANGED summary
    /\ UNCHANGED <<variant, mode, cfg, len, columns, i, pending, st, ledger, ev,
                   fn, ret>>

Next == Bar \/ Return \/ Summarize

Spec == Init /\ [][Next]_vars
SpecConst == InitConst /\ [][Next]_vars
SpecLookahead == InitLookahead /\ [][Next]_vars
SpecCost == InitCost /\ [][Next]_vars
SpecMain == InitMain /\ [][Next]_vars

\* A simulator followed from its call: nothing is assigned yet, the frame may
\* lack the RV column and cfg.execution may be any string.
InitCall ==
    /\ mode = "single"
    /\ variant \in Variants
    /\ len \in 1..CallBars
    /\ columns \in Frames
    /\ \E c \in CallInputs(variant) : cfg = [r \in Runs |-> c]
    /\ pending \in DesiredFor(variant)
    /\ pc = "call"
    /\ i = 0
    /\ st = [r \in Runs |-> NoState]
    /\ ledger = [r \in Runs |-> <<>>]
    /\ ev = [r \in Runs |-> NoEvent]
    /\ summary = NoSummary
    /\ fn = NoCall
    /\ ret = NoReturn

NextCall == Start \/ Bar \/ Return \/ Summarize

----------------------------------------------------------------------------
(* Calls of round_strike, bs_price and buy_and_hold_equity on their own      *)

\* round_strike(S, step): reference prices on and between the multiples of
\* the steps, on both sides of 0, and the scenario values 103.4 and 102.4
StrikeRefs ==
    {Q(n, 4) : n \in -12..12} \cup
        {Q(517, 5), Q(512, 5), Q(205, 2), Q(215, 2), R(105), Q(-205, 2)}
StrikeSteps == {One, R(5), Q(1, 2), Q(5, 2)}
RoundStrikeCalls ==
    {[name |-> "round_strike", S |-> S, step |-> step] :
        S \in StrikeRefs, step \in StrikeSteps}

\* bs_price(S, K, T, sigma, r, option_type) with T = days / 252, at, past and
\* before expiry
PricerPrices == {R(-1), Zero, Q(1, 2), R(90), R(100), R(110)}
PricerDays == {-1, 0, 1}
PricerVols == {Q(1, 100), Q(1, 4), R(3)}
PricerRates == {Zero, Q(1, 20)}
BsPriceCalls ==
    {[name |-> "bs_price", S |-> S, K |-> K, days |-> d, sigma |-> v, r |-> r,
      option_type |-> t] :
        S \in PricerPrices, K \in PricerPrices, d \in PricerDays,
        v \in PricerVols, r \in PricerRates, t \in {"call", "put"}}

\* buy_and_hold_equity(ohlcv, initial_cash): the Close column of the frame
ClosePrices == {R(-1), Zero, One, R(2)}
CloseSeries == UNION {[1..n -> ClosePrices] : n \in 1..FnBars}
BuyAndHoldCalls ==
    {[name |-> "buy_and_hold_equity", closes |-> cs, initial_cash |-> cash] :
        cs \in CloseSeries, cash \in {R(100), R(10000)}}

\* the simulators' variables while no simulator runs
IdleConfig == Config(R(100), "next_open", <<0, 0>>, One, <<TRUE, FALSE>>, 30, 1, One, Zero)

InitFn ==
    /\ mode = "fn"
    /\ variant = "stock"
    /\ len = 1
    /\ columns = FrameColumns
    /\ cfg = [r \in Runs |-> IdleConfig]
    /\ pending = 0
    /\ pc = "fn_call"
    /\ i = 0
    /\ st = [r \in Runs |-> NoState]
    /\ ledger = [r \in Runs |-> <<>>]
    /\ ev = [r \in Runs |-> NoEvent]
    /\ summary = NoSummary
    /\ \/ fn \in RoundStrikeCalls
       \/ fn \in BsPriceCalls
       \/ fn \in BuyAndHoldCalls
    /\ ret = NoReturn

FnReturn(value) ==
    /\ pc' = "fn_returned"
    /\ ret' = value
    /\ UNCHANGED <<variant, mode, cfg, len, columns, i, pending, st, ledger, ev,
                   summary, fn>>

CallRoundStrike ==
    /\ pc = "fn_call" /\ fn.name = "round_strike"
    /\ FnReturn(round_strike(fn.S, fn.step))

CallBsPrice ==
    /\ pc = "fn_call" /\ fn.name = "bs_price"
    /\ FnReturn(bs_price(fn.S, fn.K, fn.days, fn.sigma, fn.r, fn.option_type))

CallBuyAndHold ==
    /\ pc = "fn_call" /\ fn.name = "buy_and_hold_equity"
    /\ FnReturn(buy_and_hold_equity(fn.closes, fn.initial_cash))

NextFn == CallRoundStrike \/ CallBsPrice \/ CallBuyAndHold

SpecFn == InitFn /\ [][NextFn]_vars

SpecCall == InitCall /\ [][NextCall]_vars

----------------------------------------------------------------------------
(* Properties                                                                *)

LastRow(r) == ledger[r][Len(ledger[r])]
Rows(r) == 1..Len(ledger[r])
IsStep == i' = i + 1
NoShorting(c) == c.long_only \/ ~c.allow_short
CostBps(c) == c.fee_bps + c.slippage_bps

\* C1. No look-ahead: a run whose desired series agrees with run A's on every
\* index below the bar just processed, and differs at that bar, has the same
\* ledger rows up to and including that bar, in each of the three simulators.
C1_NoLookAhead == mode = "lookahead" => ledger["B"] = ledger["A"]

C1_Witness ==
    /\ mode = "lookahead" /\ i = PairBars
    /\ Len(ledger["B"]) = PairBars
    /\ ev["A"].traded /\ ev["B"].traded

\* C2. Signal lag on a constant price p with no cost, long-only, leverage 1:
\* Shares_0 = 0, the row of bar i holds initial_cash / p shares when
\* desired[i-1] = 1 and none otherwise, and Equity_i = initial_cash.
C2_Case ==
    /\ mode = "const" /\ variant = "stock"
    /\ CostBps(cfg["A"]) = 0 /\ cfg["A"].long_only /\ cfg["A"].max_leverage = One

C2_SignalLag ==
    [][(C2_Case /\ IsStep) =>
          LET row == ledger'["A"][i + 1]
              p == ledger["A"][1].Close
          IN  /\ ledger["A"][1].Shares = Zero
              /\ row.Shares = IF pending = 1
                              THEN RDiv(cfg["A"].initial_cash, p) ELSE Zero
              /\ row.Equity = cfg["A"].initial_cash]_vars

\* desired [0, 0, 1, 1, 1]: flat on bars 0-2, invested from bar 3 on
C2_Witness ==
    /\ C2_Case /\ Len(ledger["A"]) = 5
    /\ \A j \in 1..3 : ledger["A"][j].Shares = Zero
    /\ \A j \in 4..5 : /\ IsPos(ledger["A"][j].Shares)
                       /\ ledger["A"][j].Equity = cfg["A"].initial_cash

\* C3. With long_only, or with allow_short false, the stock simulator never
\* holds a negative number of shares.
C3_NoShortShares ==
    (variant = "stock" /\ NoShorting(cfg["A"])) =>
        \A j \in Rows("A") : RGe(ledger["A"][j].Shares, Zero)

CostsTo(j) == SeqSum([k \in 1..j |-> ledger["A"][k].TradeCost], j)

C5_Conservation ==
    (mode = "const" /\ variant = "stock") =>
        \A j \in Rows("A") :
            LET row == ledger["A"][j]
                net == RSub(cfg["A"].initial_cash, CostsTo(j))
            IN  /\ row.Equity = net
                /\ row.Shares = Zero => row.Cash = net
                /\ (row.Shares = Zero /\ CostBps(cfg["A"]) = 0) =>
                       row.Cash = cfg["A"].initial_cash

\* a round trip with costs: flat, long, flat again, both legs charged
C5_Witness ==
    /\ mode = "const" /\ variant = "stock" /\ Len(ledger["A"]) >= 3
    /\ CostBps(cfg["A"]) > 0
    /\ \E j \in 2..(Len(ledger["A"]) - 1) :
          /\ IsPos(ledger["A"][j].Shares) /\ IsPos(ledger["A"][j].TradeCost)
          /\ ledger["A"][j + 1].Shares = Zero
          /\ IsPos(ledger["A"][j + 1].TradeCost)

\* C6. Of two runs that differ only in a larger fee_bps or slippage_bps of
\* the second, the second ends with strictly less Equity whenever the first
\* executed a trade, in every simulator.
Traded(r) == \E j \in Rows(r) : ~IsZero(ledger[r][j].Trade)

C6_CostMonotone ==
    (mode = "cost" /\ pc = "returned" /\ Traded("A")) =>
        RLt(LastRow("B").Equity, LastRow("A").Equity)

\* C6, amended. The same for the stock simulator with shorting forbidden and
\* fee_bps + slippage_bps of both runs at most 10,000.
C6_Case ==
    /\ mode = "cost" /\ pc = "returned" /\ variant = "stock"
    /\ NoShorting(cfg["A"]) /\ CostBps(cfg["B"]) <= BpsScale
    /\ Traded("A")

C6_CostMonotoneLongOnly ==
    C6_Case => RLt(LastRow("B").Equity, LastRow("A").Equity)

\* both runs pay costs, and run A bought and sold
C6_Witness ==
    /\ C6_Case /\ CostBps(cfg["A"]) > 0 /\ Len(ledger["A"]) = PairBars
    /\ \E j \in Rows("A") : IsNeg(ledger["A"][j].Trade)
    /\ IsPos(LastRow("B").Equity)

\* C7. In the stock simulator, long-only or long/short, Equity is never
\* negative, and so max_drawdown of the equity series lies in [-1, 0].
EquityFloor ==
    /\ \A j \in Rows("A") : RGe(ledger["A"][j].Equity, Zero)
    /\ pc = "summarized" =>
          /\ RLe(summary.MaxDrawdown, Zero)
          /\ RGe(summary.MaxDrawdown, RNeg(One))

C7_DrawdownBound == variant = "stock" => EquityFloor

\* C7, amended. The same for stock runs with shorting forbidden and
\* fee_bps + slippage_bps at most 10,000.
C7_Case ==
    /\ variant = "stock" /\ NoShorting(cfg["A"])
    /\ CostBps(cfg["A"]) <= BpsScale

C7_DrawdownBoundLongOnly == C7_Case => EquityFloor

\* a summarized long-only run that lost more than half of its peak
C7_Witness ==
    /\ C7_Case /\ pc = "summarized"
    /\ RLt(summary.MaxDrawdown, RNeg(Q(1, 2)))
    /\ summary.NumTrades >= 2

\* C8. A leg open at bar i with expiry index <= i is settled before the target
\* of bar i is evaluated, whatever the target: cash is credited exactly
\* intrinsic * multiplier * contracts at the close and the leg is cleared; an
\* explicit exit is only ever priced for a leg with at least one bar remaining.
C8_ExpirySettlement ==
    [][(variant \in {"long_call", "protective_put"} /\ IsStep) =>
          LET s == st["A"]
              e == ev'["A"]
              row == ledger'["A"][i + 1]
              c == cfg["A"]
              units == IF variant = "long_call"
                       THEN c.option_contract_multiplier * Contracts(c)
                       ELSE c.option_contract_multiplier
              intrinsic == IF variant = "long_call"
                           THEN RMax(RSub(row.Close, s.strike), Zero)
                           ELSE RMax(RSub(s.strike, row.Close), Zero)
              credit == RMul(intrinsic, R(units))
              due == s.has_leg /\ s.expiry_i <= i
          IN  /\ due => /\ e.settled /\ ~e.exited
                        /\ e.settle_credit = credit
                        /\ ~e.traded => /\ row.Cash = RAdd(s.cash, credit)
                                        /\ ~st'["A"].has_leg
                                        /\ row.OptValue = Zero
              /\ e.settled => due
              /\ e.exited => /\ s.has_leg /\ s.expiry_i - i >= 1
                             /\ e.exit_days = s.expiry_i - i]_vars

\* a call settled in the money on a bar whose target is 0
C8_Witness ==
    /\ variant = "long_call" /\ ev["A"].settled /\ ev["A"].target = 0
    /\ IsPos(ev["A"].settle_credit) /\ ~ev["A"].traded
    /\ ~st["A"].has_leg

\* C9. The ledger of every simulator has every column summarize reads, so
\* summarize never fails on a missing column.
C9_SummarizeEveryVariant == pc # "KeyError"

\* C10. The TradeCost of a row is the cost actually deducted from cash on that
\* bar, and a bar without an executed trade (a rejected option entry included)
\* records TradeCost = 0.
C10_CostAccounting ==
    /\ LastRow("A").TradeCost = ev["A"].charged
    /\ ~ev["A"].traded => LastRow("A").TradeCost = Zero

\* C11. Long call, all-or-nothing entry: on a bar with lagged target 1 and no
\* leg open (none before the bar, or the leg settled on it), a debit
\* (premium x multiplier x contracts plus cost) above the cash leaves the cash
\* as it was, opens no leg and counts no trade, and a debit within the cash is
\* paid in full.  With fee_bps + slippage_bps <= 10,000 Cash is never negative,
\* and no entry is made while a leg is open.
C11_AllOrNothing ==
    [][(variant = "long_call" /\ IsStep) =>
          LET s == st["A"]
              e == ev'["A"]
              row == ledger'["A"][i + 1]
              due == s.has_leg /\ s.expiry_i <= i
              cash0 == RAdd(s.cash, e.settle_credit)
              attempt == e.target = 1 /\ (~s.has_leg \/ due)
          IN  /\ (attempt /\ RGt(e.debit, cash0)) =>
                     /\ row.Cash = cash0 /\ ~st'["A"].has_leg
                     /\ row.Trade = Zero /\ row.OptValue = Zero
              /\ (attempt /\ RLe(e.debit, cash0)) =>
                     /\ row.Cash = RSub(cash0, e.debit) /\ st'["A"].has_leg
                     /\ row.Trade = One
              /\ CostBps(cfg["A"]) <= BpsScale => RGe(row.Cash, Zero)
              /\ (s.has_leg /\ ~due) => ~e.entered]_vars

\* an entry refused for lack of cash after an earlier leg was bought and sold
C11_Witness ==
    /\ variant = "long_call" /\ ev["A"].rejected /\ ev["A"].target = 1
    /\ RGt(ev["A"].debit, LastRow("A").Cash) /\ IsPos(LastRow("A").Cash)
    /\ ~st["A"].has_leg /\ LastRow("A").Trade = Zero
    /\ \E j \in Rows("A") : ~IsZero(ledger["A"][j].Trade)

C13_EquityIdentity ==
    /\ [](\A r \in Runs : Len(ledger[r]) > 0 =>
              /\ ledger[r][1].Equity = ledger[r][1].Cash
              /\ ledger[r][1].Shares = Zero /\ ledger[r][1].OptValue = Zero)
    /\ [][IsStep =>
            LET row == ledger'["A"][i + 1]
                s1 == st'["A"]
                c == cfg["A"]
                units == IF variant = "long_call"
                         THEN c.option_contract_multiplier * Contracts(c)
                         ELSE c.option_contract_multiplier
                mark == IF variant # "stock" /\ s1.has_leg
                        THEN RMul(bs_price(row.Close, s1.strike,
                                           RemainingDays(s1.expiry_i, i),
                                           ev'["A"].sigma, c.risk_free_rate,
                                           IF variant = "long_call"
                                           THEN "call" ELSE "put"),
                                  R(units))
                        ELSE Zero
            IN  /\ row.Cash = s1.cash
                /\ row.Shares = (IF variant = "long_call" THEN Zero ELSE s1.shares)
                /\ row.OptValue = mark
                /\ row.Equity = RAdd(RAdd(row.Cash, RMul(row.Shares, row.Close)),
                                     mark)]_vars

\* a call held past its entry bar, marked above zero with fewer days left than
\* its term
C13_Witness ==
    /\ variant = "long_call" /\ st["A"].has_leg /\ ~ev["A"].traded
    /\ st["A"].expiry_i - (i - 1) < cfg["A"].option_dte_days
    /\ IsPos(LastRow("A").OptValue)
    /\ LastRow("A").Equity = RAdd(LastRow("A").Cash, LastRow("A").OptValue)

\* C14. One ledger row per bar: a simulator called with a frame of n >= 1 bars
\* runs its loop for i = 1, ..., n - 1 in this order, each iteration appending
\* one row and leaving the earlier rows alone, then returns a frame of exactly
\* n rows; row 0 has Cash = Equity = initial_cash, no position, no trade, no
\* cost and EquityReturn = 0.  Termination is stated by its safety part: every
\* iteration moves i one closer to n, i never passes n, and the loop is left
\* only by the return at i = n.
Returned == pc \in {"returned", "summarized", "KeyError"}

C14_OneRowPerBar ==
    /\ [](pc = "loop" => (i >= 1 /\ i <= len /\ Len(ledger["A"]) = i))
    /\ [](Returned =>
             LET row0 == ledger["A"][1]
             IN  /\ Len(ledger["A"]) = len /\ i = len
                 /\ row0.Cash = cfg["A"].initial_cash
                 /\ row0.Equity = cfg["A"].initial_cash
                 /\ row0.Shares = Zero /\ row0.OptValue = Zero
                 /\ row0.Trade = Zero /\ row0.TradeCost = Zero
                 /\ row0.EquityReturn = Zero)
    /\ [][(pc = "loop" /\ pc' = "loop" /\ i' # i) =>
             /\ i' = i + 1
             /\ Len(ledger'["A"]) = i + 1
             /\ \A j \in 1..i : ledger'["A"][j] = ledger["A"][j]]_vars
    /\ [][(pc = "loop" /\ pc' # "loop") =>
             (pc' = "returned" /\ i = len /\ i' = i
              /\ Len(ledger'["A"]) = Len(ledger["A"]))]_vars

\* a frame of CallBars rows returned by a run that traded on its last bar
C14_Witness ==
    /\ pc = "returned" /\ len = CallBars /\ Len(ledger["A"]) = CallBars
    /\ ~IsZero(LastRow("A").Trade) /\ ~IsZero(LastRow("A").EquityReturn)

Raised == pc \in {"ValueError: RV", "ValueError: execution"}
NothingCreated == st["A"] = NoState /\ ledger["A"] = <<>> /\ i = 0

\* C15. Invalid execution timing is fatal before simulation: a call of any of
\* the three simulators with cfg.execution other than 'next_open' and
\* 'next_close' raises a ValueError as its only step, with no portfolio state
\* created, no bar processed, no ledger, and the frame, the desired series and
\* the configuration as they were; the execution error is raised for no other
\* reason.
C15_InvalidExecutionFatal ==
    /\ [][(pc = "call" /\ cfg["A"].execution \notin {"next_open", "next_close"}) =>
             /\ Raised'
             /\ UNCHANGED <<st, ledger, i, cfg, columns, len, pending>>]_vars
    /\ [](Raised => NothingCreated)
    /\ [](pc = "ValueError: execution" =>
             cfg["A"].execution \notin {"next_open", "next_close"})
    /\ [][Raised => UNCHANGED vars]_vars

\* the execution error of a protective-put call whose frame has the RV column
C15_Witness ==
    /\ pc = "ValueError: execution" /\ variant = "protective_put"
    /\ "RV" \in columns /\ cfg["A"].execution = "next_bar" /\ NothingCreated

\* C16. A frame without the 'RV' column is fatal to the long call and to the
\* protective put: the call raises a ValueError as its only step, before the
\* loop and before any bar is processed, whatever the rest of the configuration
\* (an invalid cfg.execution included); the stock simulator does not need the
\* column and enters its loop without it.
C16_MissingRVFatal ==
    /\ [][(pc = "call" /\ "RV" \notin columns) =>
             IF variant \in {"long_call", "protective_put"}
             THEN pc' = "ValueError: RV" /\ UNCHANGED <<st, ledger, i>>
             ELSE cfg["A"].execution \in {"next_open", "next_close"} =>
                     (pc' = "loop" /\ i' = 1 /\ Len(ledger'["A"]) = 1)]_vars
    /\ [](pc = "ValueError: RV" =>
             /\ variant # "stock" /\ "RV" \notin columns /\ NothingCreated)

\* the RV error of a protective-put call whose cfg.execution is invalid too
C16_Witness ==
    /\ pc = "ValueError: RV" /\ variant = "protective_put"
    /\ cfg["A"].execution = "next_bar" /\ len = CallBars /\ NothingCreated

FnDone(name) == pc = "fn_returned" /\ fn.name = name

\* C17. buy_and_hold_equity on a series whose first close is <= 0 is undefined
\* (NaN) at every bar; on a first close > 0 it is initial_cash x close_i /
\* close_0 at every bar i, and so initial_cash at bar 0.
C17_Benchmark ==
    FnDone("buy_and_hold_equity") =>
        \A j \in 1..Len(fn.closes) :
            IF IsPos(fn.closes[1])
            THEN ret[j] = RDiv(RMul(fn.initial_cash, fn.closes[j]), fn.closes[1])
            ELSE ret[j] = NaN

\* C17, amended. On a first close <= 0 the benchmark is 0 at every bar; on a
\* first close > 0 it is as above.
C17_BenchmarkZero ==
    FnDone("buy_and_hold_equity") =>
        /\ Len(ret) = Len(fn.closes)
        /\ IsPos(fn.closes[1]) => ret[1] = fn.initial_cash
        /\ \A j \in 1..Len(fn.closes) :
              IF IsPos(fn.closes[1])
              THEN ret[j] = RDiv(RMul(fn.initial_cash, fn.closes[j]), fn.closes[1])
              ELSE ret[j] = Zero

\* a series that opens at 0 and trades above and below it afterwards
C17_Witness ==
    /\ FnDone("buy_and_hold_equity") /\ Len(fn.closes) = FnBars
    /\ fn.closes[1] = Zero /\ IsPos(fn.closes[2]) /\ IsNeg(fn.closes[3])
    /\ \A j \in 1..FnBars : ret[j] = Zero

IsMultiple(x, step) == RDiv(x, step)[2] = 1
Distance(x, y) == RAbs(RSub(x, y))
IsTie(S, step) == RDiv(RMul(R(2), S), step)[2] = 1 /\ ~IsMultiple(S, step)

\* C18. round_strike(S, step) with step > 0 is a multiple of step at most
\* step / 2 away from S, a tie goes up to the higher multiple, and
\* round_strike(103.4, 5) = 105, round_strike(102.4, 5) = 100.
C18_RoundStrike ==
    FnDone("round_strike") =>
        /\ IsMultiple(ret, fn.step)
        /\ RLe(Distance(ret, fn.S), RDiv(fn.step, R(2)))
        /\ IsTie(fn.S, fn.step) => ret = RAdd(fn.S, RDiv(fn.step, R(2)))
        /\ (fn.S = Q(517, 5) /\ fn.step = R(5)) => ret = R(105)
        /\ (fn.S = Q(512, 5) /\ fn.step = R(5)) => ret = R(100)

\* C18, amended. The same, but a tie goes to the multiple k x step with k even.
C18_RoundStrikeHalfEven ==
    FnDone("round_strike") =>
        /\ IsMultiple(ret, fn.step)
        /\ RLe(Distance(ret, fn.S), RDiv(fn.step, R(2)))
        /\ IsTie(fn.S, fn.step) => RDiv(ret, fn.step)[1] % 2 = 0
        /\ (fn.S = Q(517, 5) /\ fn.step = R(5)) => ret = R(105)
        /\ (fn.S = Q(512, 5) /\ fn.step = R(5)) => ret = R(100)

\* round_strike(102.5, 5) = 100: the tie went down, to 20 x 5
C18_Witness ==
    /\ FnDone("round_strike") /\ fn.S = Q(205, 2) /\ fn.step = R(5)
    /\ ret = R(100)

\* C19. bs_price with T <= 0 returns max(S - K, 0) for a call and
\* max(K - S, 0) for a put, whatever sigma and r, and never a negative value.
C19_PricerAtExpiry ==
    (FnDone("bs_price") /\ fn.days <= 0) =>
        /\ ret = IF fn.option_type = "call"
                 THEN (IF RGt(fn.S, fn.K) THEN RSub(fn.S, fn.K) ELSE Zero)
                 ELSE (IF RGt(fn.K, fn.S) THEN RSub(fn.K, fn.S) ELSE Zero)
        /\ RGe(ret, Zero)

\* T = 0, S = 110, K = 100, call: 10, at a volatility of 300%
C19_Witness ==
    /\ FnDone("bs_price") /\ fn.days = 0 /\ fn.option_type = "call"
    /\ fn.S = R(110) /\ fn.K = R(100) /\ fn.sigma = R(3) /\ ~IsZero(fn.r)
    /\ ret = R(10)

\* C20. In the stock simulator with initial_cash > 0 and max_leverage > 0, at
\* the end of every bar whose execution price is > 0 the sign of Shares is the
\* clamped target of that bar: positive for 1, negative for -1, zero for 0.
C20_PositionTracksTarget ==
    (/\ variant = "stock" /\ ev["A"].px_pos
     /\ IsPos(cfg["A"].initial_cash) /\ IsPos(cfg["A"].max_leverage)) =>
        CurrentPosition(LastRow("A").Shares) = ev["A"].target

\* C21. Protective put: at the end of every bar, an open put leg implies
\* Shares > 0 (the put is opened only with a stock entry and is closed by a
\* stock exit on the same bar, so it never outlives the stock position).
C21_PutWithStock ==
    (variant = "protective_put" /\ st["A"].has_leg) => IsPos(st["A"].shares)

\* the units one option leg stands for: contracts x multiplier for the call,
\* the multiplier for the put
LegUnits(c) ==
    IF variant = "long_call" THEN c.option_contract_multiplier * Contracts(c)
    ELSE c.option_contract_multiplier
LegType == IF variant = "long_call" THEN "call" ELSE "put"

\* C22 as stated. Long call and protective put with option_dte_days >= 1: a
\* leg opened at bar e has the expiry index min(e + option_dte_days, n - 1),
\* and this index is strictly greater than e (e is i - 1 after the bar).
C22_ExpiresAfterEntry ==
    (/\ variant \in {"long_call", "protective_put"} /\ ev["A"].entered
     /\ cfg["A"].option_dte_days >= 1) =>
        /\ st["A"].has_leg
        /\ st["A"].expiry_i =
              IF (i - 1) + cfg["A"].option_dte_days < len - 1
              THEN (i - 1) + cfg["A"].option_dte_days ELSE len - 1
        /\ st["A"].expiry_i > i - 1

\* C22, amended. A leg opened at bar e has the expiry index
\* min(e + option_dte_days, n - 1), which stays fixed (with the strike) while
\* the leg is open; it is strictly greater than e when e < n - 1, and the leg
\* is then marked on its entry bar with min(option_dte_days, n - 1 - e) >= 1
\* days left; it equals e when the leg is opened on the last bar, and the leg
\* is then marked at its intrinsic value on its entry bar.
C22_ExpiryClamped ==
    /\ []((/\ variant \in {"long_call", "protective_put"} /\ ev["A"].entered
           /\ cfg["A"].option_dte_days >= 1) =>
            LET e == i - 1
                dte == cfg["A"].option_dte_days
                leg == st["A"]
                left == IF e = len - 1 THEN 0
                        ELSE IF dte < len - 1 - e THEN dte ELSE len - 1 - e
            IN  /\ leg.has_leg /\ e <= len - 1
                /\ leg.expiry_i = e + left
                /\ e < len - 1 => (leg.expiry_i > e /\ left >= 1)
                /\ e = len - 1 => leg.expiry_i = e
                /\ LastRow("A").OptValue =
                      RMul(bs_price(LastRow("A").Close, leg.strike, left,
                                    ev["A"].sigma, cfg["A"].risk_free_rate,
                                    LegType),
                           R(LegUnits(cfg["A"]))))
    /\ [][(/\ variant \in {"long_call", "protective_put"} /\ IsStep
           /\ st["A"].has_leg /\ st'["A"].has_leg /\ ~ev'["A"].entered) =>
              /\ st'["A"].expiry_i = st["A"].expiry_i
              /\ st'["A"].strike = st["A"].strike]_vars

\* a call bought on the last bar with two days of time value: it expires on
\* that bar and is marked there at its intrinsic value, below what was paid
C22_Witness ==
    /\ variant = "long_call" /\ ev["A"].entered /\ i = len /\ len >= 3
    /\ cfg["A"].option_dte_days = 2 /\ st["A"].expiry_i = len - 1
    /\ LastRow("A").OptValue =
          RMul(RMax(RSub(LastRow("A").Close, st["A"].strike), Zero),
               R(LegUnits(cfg["A"])))
    /\ RLt(LastRow("A").OptValue, RSub(ev["A"].debit, ev["A"].charged))

\* C23. Stock simulator: on a bar i >= 1 whose clamped target equals the sign
\* of the position held, or whose execution price is <= 0, only the mark to
\* market changes: Cash_i = Cash_{i-1}, Shares_i = Shares_{i-1},
\* TradeShares_i = 0, TradeCost_i = 0 and Equity_i = Cash_i + Shares_i x Close_i.
C23_NoTradeFrame ==
    [][(variant = "stock" /\ IsStep) =>
          LET c == cfg["A"]
              prev == ledger["A"][i]
              row == ledger'["A"][i + 1]
              clamped == IF c.long_only THEN (IF pending = 1 THEN 1 ELSE 0)
                         ELSE IF pending < 0 /\ ~c.allow_short THEN 0
                         ELSE pending
              sign == IF RGt(prev.Shares, Zero) THEN 1
                      ELSE IF RLt(prev.Shares, Zero) THEN -1 ELSE 0
          IN  (clamped = sign \/ ~ev'["A"].px_pos) =>
                 /\ row.Cash = prev.Cash /\ row.Shares = prev.Shares
                 /\ row.Trade = Zero /\ row.TradeCost = Zero
                 /\ row.Equity = RAdd(prev.Cash, RMul(prev.Shares, row.Close))
                 /\ st'["A"].cash = prev.Cash
                 /\ st'["A"].shares = prev.Shares]_vars

\* a short position kept under target -1 while the close moves: cash, shares
\* and the trade columns stay, the equity changes
C23_Witness ==
    /\ variant = "stock" /\ Len(ledger["A"]) >= 3
    /\ ev["A"].target = -1 /\ ev["A"].px_pos /\ ~ev["A"].traded
    /\ LET prev == ledger["A"][Len(ledger["A"]) - 1]
       IN  /\ IsNeg(prev.Shares) /\ LastRow("A").Shares = prev.Shares
           /\ LastRow("A").Cash = prev.Cash /\ IsZero(LastRow("A").Trade)
           /\ LastRow("A").Equity # prev.Equity

\* C24. Long call: a leg that is open at the end of bar i >= 1 implies
\* desired[i-1] = 1; and when the lagged target is 0 and a leg is open after
\* the expiry check, the leg is sold on that bar at the pricer's value for
\* (expiry - i) / 252 years at the execution price, cash is credited the
\* proceeds less their cost, and the leg is removed.
C24_CallHeldWhileOn ==
    [][(variant = "long_call" /\ IsStep) =>
          LET c == cfg["A"]
              s == st["A"]
              e == ev'["A"]
              row == ledger'["A"][i + 1]
              open == s.has_leg /\ i < s.expiry_i
              proceeds ==
                  RMul(bs_price(e.exit_px, s.strike, s.expiry_i - i, e.sigma,
                                c.risk_free_rate, "call"),
                       R(c.option_contract_multiplier * Contracts(c)))
              cost == RMul(proceeds, Q(CostBps(c), BpsScale))
          IN  /\ st'["A"].has_leg => pending = 1
              /\ (pending # 1 /\ open) =>
                    /\ e.exited /\ s.expiry_i - i >= 1
                    /\ c.execution = "next_close" => e.exit_px = row.Close
                    /\ row.Cash = RAdd(s.cash, RSub(proceeds, cost))
                    /\ row.TradeCost = cost /\ row.Trade = One
                    /\ ~st'["A"].has_leg /\ st'["A"].expiry_i = -1
                    /\ st'["A"].strike = Zero
                    /\ row.OptValue = Zero /\ row.Equity = row.Cash]_vars

\* a call sold one day before its expiry, above its intrinsic value and at a
\* cost, when the signal went off
C24_Witness ==
    /\ variant = "long_call" /\ ev["A"].exited /\ ev["A"].exit_days = 1
    /\ ev["A"].target = 0 /\ ~st["A"].has_leg /\ IsPos(ev["A"].charged)
    /\ LET prev == ledger["A"][Len(ledger["A"]) - 1]
       IN  /\ IsPos(prev.OptValue)
           /\ RGt(LastRow("A").Cash, prev.Cash)

\* the bars i >= 1 (rows 2..) of run A on which the share position changed
PositionChanges ==
    {j \in 2..Len(ledger["A"]) :
        ledger["A"][j].Shares # ledger["A"][j - 1].Shares}

\* C25. Stock ledger: TradeShares_i = Shares_i - Shares_{i-1} on every bar
\* i >= 1 (on a flip, the closing and the opening leg together), row 0 has
\* TradeShares = 0, and the trade count of summarize, the number of rows with
\* nonzero TradeShares, is the number of bars on which Shares changed.
C25_TradeFlow ==
    (variant = "stock" /\ Len(ledger["A"]) > 0) =>
        /\ ledger["A"][1].Trade = Zero
        /\ \A j \in 2..Len(ledger["A"]) :
              ledger["A"][j].Trade =
                  RSub(ledger["A"][j].Shares, ledger["A"][j - 1].Shares)
        /\ pc = "summarized" =>
              summary.NumTrades = Cardinality(PositionChanges)

\* a summarized run with an entry, a long-to-short flip and a bar that keeps
\* the short: two trades counted over three bars
C25_Witness ==
    /\ variant = "stock" /\ pc = "summarized" /\ Len(ledger["A"]) = 4
    /\ summary.NumTrades = 2
    /\ \E j \in 2..Len(ledger["A"]) :
          /\ IsPos(ledger["A"][j - 1].Shares) /\ IsNeg(ledger["A"][j].Shares)
          /\ ledger["A"][j].Trade # RNeg(ledger["A"][j - 1].Shares)
    /\ \E j \in 2..Len(ledger["A"]) :
          /\ IsNeg(ledger["A"][j].Shares) /\ IsZero(ledger["A"][j].Trade)
          /\ ledger["A"][j].Equity # ledger["A"][j - 1].Equity

\* C26. Position type "short only" picked in main for stock mode: Shares <= 0
\* in every row of the ledger run_stock_backtest returns.
C26_ShortOnly ==
    (mode = "main" /\ fn.pos_choice = "short") =>
        \A j \in Rows("A") : ~IsPos(ledger["A"][j].Shares)

====
